---- MODULE Spec2Model ----
(***************************************************************************)
(* Model of the LinkedIn job search server (src/src/index.ts): the JobCache *)
(* class, the Query class (constructor, url, getJobs, fetchJobBatch), the   *)
(* parseJobList extractor and the chat_linkedin_jobs tool handler.          *)
(*                                                                          *)
(* Strings are taken apart character by character, so that trim, the       *)
(* whitespace replacement and toString are computed and not assumed.        *)
(* An optional value (a JavaScript undefined) is a sequence of length 0 or  *)
(* 1.  Time is in milliseconds, as Date.now() and setTimeout count it.      *)
(***************************************************************************)
EXTENDS Integers, Sequences, FiniteSets, TLC

VARIABLES
    \* the process: the clock Date.now() reads and the JobCache singleton
    now, cache,
    \* one getJobs call (and the tool request that made it, if any) per slot
    pc, query, allJobs, start, consecutiveErrors, wakeAt, lastError,
    result, outcome, response,
    \* what each call did, recorded for the properties
    request, fetchLog, outcomes, pagesLog, waits, lastFetchAt, hit,
    cacheReads, cacheWrites, cacheDeletes, inputs,
    \* the most recent set(key, v) of every key, and the last JobCache call
    \* made directly
    lastSet, cop,
    \* the page last handed to parseJobList, and what it returned
    rawPage, parsed

procVars == <<now, cache, lastSet>>
callVars == <<pc, query, allJobs, start, consecutiveErrors, wakeAt, lastError,
              result, outcome, response>>
obsVars == <<request, fetchLog, outcomes, pagesLog, waits, lastFetchAt, hit,
             cacheReads, cacheWrites, cacheDeletes, inputs>>
parseVars == <<rawPage, parsed>>
vars == <<procVars, callVars, obsVars, cop, parseVars>>

\* ------------------------------------------------------------------ bounds
\* The most fetchJobBatch calls of the getJobs call followed on its own.
MaxFetches == 4
\* The most fetchJobBatch calls of one getJobs call of the server.
MaxServerFetches == 2
\* The most candidate items of a page handed to parseJobList on its own.
MaxItems == 3
\* The clock stops advancing here.
MaxTime == 7220000
\* The most fetchJobBatch calls of a getJobs call followed to its return.
MaxLimitFetches == 7

\* ------------------------------------------------------- program constants
TTL == 3600000
BATCH_SIZE == 25
MAX_CONSECUTIVE_ERRORS == 3
ToolLimit == 10
PaceBase == 2000
JitterRange == 1000
BackoffUnit == 1000

\* ----------------------------------------------------------------- strings
Space == " "
Digits == <<"0", "1", "2", "3", "4", "5", "6", "7", "8", "9">>
CharAt(s, i) == SubSeq(s, i, i)
Rest(s) == SubSeq(s, 2, Len(s))

RECURSIVE NumToStr(_)
\* Number.prototype.toString() of a natural number
NumToStr(n) == IF n < 10 THEN Digits[n + 1]
               ELSE NumToStr(n \div 10) \o Digits[(n % 10) + 1]

RECURSIVE TrimLeft(_)
TrimLeft(s) == IF Len(s) > 0 /\ CharAt(s, 1) = Space THEN TrimLeft(Rest(s)) ELSE s

RECURSIVE TrimRight(_)
TrimRight(s) == IF Len(s) > 0 /\ CharAt(s, Len(s)) = Space
                THEN TrimRight(SubSeq(s, 1, Len(s) - 1)) ELSE s

\* String.prototype.trim()
Trim(s) == TrimRight(TrimLeft(s))

RECURSIVE ReplaceWs(_, _)
\* String.prototype.replace(/\s+/g, by): every run of whitespace becomes `by`
ReplaceWs(s, by) ==
    IF Len(s) = 0 THEN ""
    ELSE IF CharAt(s, 1) = Space THEN by \o ReplaceWs(TrimLeft(s), by)
    ELSE CharAt(s, 1) \o ReplaceWs(Rest(s), by)

Uppers == "ABCDEFGHIJKLMNOPQRSTUVWXYZ"
Lowers == "abcdefghijklmnopqrstuvwxyz"
LowerChar(ch) == IF \E i \in 1..26 : CharAt(Uppers, i) = ch
                 THEN CharAt(Lowers, CHOOSE i \in 1..26 : CharAt(Uppers, i) = ch)
                 ELSE ch
RECURSIVE ToLowerCase(_)
\* String.prototype.toLowerCase()
ToLowerCase(s) == IF Len(s) = 0 THEN ""
                  ELSE LowerChar(CharAt(s, 1)) \o ToLowerCase(Rest(s))

\* x || d for a string x: the empty string is falsy
OrElse(x, d) == IF x = "" THEN d ELSE x
\* x || d for an optional string x: undefined and "" are falsy
OptOr(x, d) == IF x = <<>> THEN d ELSE OrElse(x[1], d)
\* table[key] || "" for a lookup table given as a set of <<key, token>> pairs
Lookup(table, key) ==
    IF \E e \in table : e[1] = key
    THEN (CHOOSE e \in table : e[1] = key)[2] ELSE ""


\* ------------------------------------------------------------------- Query
\* A QueryObject: every field is optional, <<>> is an absent field.
NoFields == [host |-> <<>>, keyword |-> <<>>, location |-> <<>>,
             dateSincePosted |-> <<>>, jobType |-> <<>>, remoteFilter |-> <<>>,
             salary |-> <<>>, experienceLevel |-> <<>>, sortBy |-> <<>>,
             limit |-> <<>>, page |-> <<>>]

\* x?.trim().replace(/\s+/g, "+") || ""
Normalize(x) == IF x = <<>> THEN "" ELSE ReplaceWs(Trim(x[1]), "+")
\* Number(x) || 0 for an optional natural number
NumberOr0(x) == IF x = <<>> THEN 0 ELSE x[1]

\* constructor(queryObj)
NewQuery(queryObj) ==
    [host |-> OptOr(queryObj.host, "www.linkedin.com"),
     keyword |-> Normalize(queryObj.keyword),
     location |-> Normalize(queryObj.location),
     dateSincePosted |-> OptOr(queryObj.dateSincePosted, ""),
     jobType |-> OptOr(queryObj.jobType, ""),
     remoteFilter |-> OptOr(queryObj.remoteFilter, ""),
     salary |-> OptOr(queryObj.salary, ""),
     experienceLevel |-> OptOr(queryObj.experienceLevel, ""),
     sortBy |-> OptOr(queryObj.sortBy, ""),
     limit |-> NumberOr0(queryObj.limit),
     page |-> NumberOr0(queryObj.page)]

dateRange == {<<"past month", "r2592000">>, <<"past week", "r604800">>,
              <<"24hr", "r86400">>}
experienceRange == {<<"internship", "1">>, <<"entry level", "2">>,
                    <<"associate", "3">>, <<"senior", "4">>,
                    <<"director", "5">>, <<"executive", "6">>}
jobTypeRange == {<<"full time", "F">>, <<"full-time", "F">>, <<"part time", "P">>,
                 <<"part-time", "P">>, <<"contract", "C">>, <<"temporary", "T">>,
                 <<"volunteer", "V">>, <<"internship", "I">>}
remoteFilterRange == {<<"on-site", "1">>, <<"on site", "1">>, <<"remote", "2">>,
                      <<"hybrid", "3">>}
salaryRange == {<<"40000", "1">>, <<"60000", "2">>, <<"80000", "3">>,
                <<"100000", "4">>, <<"120000", "5">>}

getDateSincePosted(q) == Lookup(dateRange, ToLowerCase(q.dateSincePosted))
getExperienceLevel(q) == Lookup(experienceRange, ToLowerCase(q.experienceLevel))
getJobType(q) == Lookup(jobTypeRange, ToLowerCase(q.jobType))
getRemoteFilter(q) == Lookup(remoteFilterRange, ToLowerCase(q.remoteFilter))
getSalary(q) == Lookup(salaryRange, q.salary)
getPage(q) == q.page * BATCH_SIZE

\* The application/x-www-form-urlencoded serializer of URLSearchParams, on
\* the characters the model's inputs use.
EncodeChar(ch) == CASE ch = " " -> "+" [] ch = "+" -> "%2B" [] OTHER -> ch
RECURSIVE Encode(_)
Encode(s) == IF Len(s) = 0 THEN ""
             ELSE EncodeChar(CharAt(s, 1)) \o Encode(Rest(s))

\* params.append(name, value) when value is truthy
Param(name, value) == IF value = "" THEN <<>> ELSE <<name \o "=" \o Encode(value)>>

RECURSIVE JoinAmp(_)
\* URLSearchParams.prototype.toString()
JoinAmp(ps) == IF ps = <<>> THEN ""
               ELSE IF Len(ps) = 1 THEN ps[1]
               ELSE ps[1] \o "&" \o JoinAmp(Tail(ps))

SortParam(q) == IF q.sortBy = "recent" THEN <<"sortBy=DD">>
                ELSE IF q.sortBy = "relevant" THEN <<"sortBy=R">> ELSE <<>>

\* The parameters url(start) appends, in order.
UrlParams(q, st) ==
    Param("keywords", q.keyword) \o Param("location", q.location)
    \o Param("f_TPR", getDateSincePosted(q)) \o Param("f_SB2", getSalary(q))
    \o Param("f_E", getExperienceLevel(q)) \o Param("f_WT", getRemoteFilter(q))
    \o Param("f_JT", getJobType(q))
    \o <<"start=" \o NumToStr(st + getPage(q))>> \o SortParam(q)

\* url(start)
url(q, st) == "https://" \o q.host
              \o "/jobs-guest/jobs/api/seeMoreJobPostings/search?"
              \o JoinAmp(UrlParams(q, st))

\* ---------------------------------------------------------------- JobCache
\* The cache is a function from the keys that have an entry to
\* [data, timestamp]; a JobData[] | null is <<data>> or <<>>.
Null == <<>>

\* A comparison that lets an entry expire one tick early.
ExpiredAtTTL(item, t) == t - item.timestamp >= TTL

\* Date.now() - item.timestamp > this.TTL
Expired(item, t) == t - item.timestamp > TTL

\* set(key, value) at time t
CacheSet(c, key, value, t) ==
    [k \in DOMAIN c \cup {key} |->
        IF k = key THEN [data |-> value, timestamp |-> t] ELSE c[k]]

\* what get(key) returns at time t
CacheGet(c, key, t) ==
    IF key \notin DOMAIN c THEN Null
    ELSE IF Expired(c[key], t) THEN Null
    ELSE <<c[key].data>>

\* A get that leaves the expired entry where it is.
CacheAfterGetKeeps(c, key, t) == c

\* A get that renews the entry it returns.
CacheAfterGetTouches(c, key, t) ==
    IF key \notin DOMAIN c THEN c
    ELSE IF Expired(c[key], t) THEN [k \in DOMAIN c \ {key} |-> c[k]]
    ELSE CacheSet(c, key, c[key].data, t)

\* the cache after get(key) at time t
CacheAfterGet(c, key, t) ==
    IF key \in DOMAIN c /\ Expired(c[key], t)
    THEN [k \in DOMAIN c \ {key} |-> c[k]] ELSE c

\* A sweep that empties the cache.
CacheClearAll(c, t) == <<>>

\* the cache after clear() at time t
CacheClear(c, t) ==
    [k \in {x \in DOMAIN c : ~Expired(c[x], t)} |-> c[k]]

\* getCacheSize()
CacheSize(c) == Cardinality(DOMAIN c)

\* ------------------------------------------------------------ parseJobList
\* A candidate item is one li element, given by the text or attribute each
\* selector finds in it: "" is an empty text, <<>> a missing attribute.
\* An extractor that drops an item only when it has neither field.
ParseItemLax(el) ==
    IF Trim(el.title) = "" /\ Trim(el.subtitle) = "" THEN <<>>
    ELSE <<[position |-> Trim(el.title), company |-> Trim(el.subtitle),
            location |-> Trim(el.location), date |-> el.datetime,
            salary |-> OrElse(ReplaceWs(Trim(el.salaryInfo), " "), "Not specified"),
            jobUrl |-> OptOr(el.href, ""), companyLogo |-> OptOr(el.logo, ""),
            agoTime |-> Trim(el.listdate)]>>

\* An extractor that asks for a position only.
ParseItemNeedsPosition(el) ==
    IF Trim(el.title) = "" THEN <<>>
    ELSE <<[position |-> Trim(el.title), company |-> Trim(el.subtitle),
            location |-> Trim(el.location), date |-> el.datetime,
            salary |-> OrElse(ReplaceWs(Trim(el.salaryInfo), " "), "Not specified"),
            jobUrl |-> OptOr(el.href, ""), companyLogo |-> OptOr(el.logo, ""),
            agoTime |-> Trim(el.listdate)]>>

\* One li element to a JobData, <<>> for the null the map callback returns.
ParseItem(el) ==
    LET position == Trim(el.title)
        company == Trim(el.subtitle)
        location == Trim(el.location)
        salary == ReplaceWs(Trim(el.salaryInfo), " ")
        agoTime == Trim(el.listdate)
    IN  IF position = "" \/ company = "" THEN <<>>
        ELSE <<[position |-> position, company |-> company,
                location |-> location, date |-> el.datetime,
                salary |-> OrElse(salary, "Not specified"),
                jobUrl |-> OptOr(el.href, ""),
                companyLogo |-> OptOr(el.logo, ""),
                agoTime |-> OrElse(agoTime, "")]>>

RECURSIVE parseJobList(_)
\* jobs.map(...).get().filter(job => job !== null)
parseJobList(jobData) ==
    IF jobData = <<>> THEN <<>>
    ELSE ParseItem(Head(jobData)) \o parseJobList(Tail(jobData))

\* ------------------------------------------------------------------ inputs
\* The li elements a page can hold, by kind; `tag` tells the items apart.
MakeItem(kind, tag, co) ==
    CASE kind = "full" ->
           [title |-> "  Job " \o tag \o " ", subtitle |-> " Co " \o co,
            location |-> " London ", datetime |-> <<"2024-05-01">>,
            salaryInfo |-> " 50k  -  60k ", href |-> <<"https://job/" \o tag>>,
            logo |-> <<"https://logo/" \o tag>>, listdate |-> " 1 day ago "]
      [] kind = "bare" ->
           [title |-> "Job " \o tag, subtitle |-> "Co " \o co, location |-> "",
            datetime |-> <<>>, salaryInfo |-> "", href |-> <<>>, logo |-> <<>>,
            listdate |-> ""]
      [] kind = "noTitle" ->
           [title |-> "", subtitle |-> "Co " \o co, location |-> "London",
            datetime |-> <<>>, salaryInfo |-> "", href |-> <<>>, logo |-> <<>>,
            listdate |-> ""]
      [] kind = "blankTitle" ->
           [title |-> "  ", subtitle |-> "Co " \o co, location |-> "London",
            datetime |-> <<>>, salaryInfo |-> "", href |-> <<>>, logo |-> <<>>,
            listdate |-> ""]
      [] kind = "noCompany" ->
           [title |-> "Job " \o tag, subtitle |-> " ", location |-> "London",
            datetime |-> <<>>, salaryInfo |-> "", href |-> <<>>, logo |-> <<>>,
            listdate |-> ""]
      [] OTHER ->
           [title |-> "", subtitle |-> "", location |-> "",
            datetime |-> <<>>, salaryInfo |-> "", href |-> <<>>, logo |-> <<>>,
            listdate |-> ""]

ItemKinds == {"full", "bare", "noTitle", "blankTitle", "noCompany", "neither"}
\* The pages a fetch is answered with, by the kinds of their items.
FetchShapes == {<<>>, <<"noTitle">>, <<"neither", "full">>,
                <<"noCompany", "bare">>, <<"full", "blankTitle", "bare">>}
ServerShapes == {<<>>, <<"full", "blankTitle", "bare">>}

\* The sequences over S of length at most n
SeqsUpTo(S, n) == UNION {[1..k -> S] : k \in 0..n}

\* The page the source serves for a query at an effective offset, its items
\* of the kinds `shape` lists.
MakePage(shape, tag, co) ==
    [i \in 1..Len(shape) |-> MakeItem(shape[i], tag \o "." \o NumToStr(i), co)]

\* The QueryObjects getJobs is called with.
DevOps(lim) == [NoFields EXCEPT !.keyword = <<" dev  ops ">>,
                                !.location = <<"London">>, !.limit = lim]
Qa == [NoFields EXCEPT !.keyword = <<"qa">>, !.page = <<1>>,
                        !.jobType = <<"Full-time">>, !.limit = <<1>>]
QueryObjects == {DevOps(<<>>), DevOps(<<3>>), Qa}
ServerQueries == {DevOps(<<1>>), Qa}

\* JavaScript values of the tool's `query` argument
JsUndefined == [type |-> "undefined", str |-> "", num |-> 0]
JsString(x) == [type |-> "string", str |-> x, num |-> 0]
JsNumber(n) == [type |-> "number", str |-> "", num |-> n]
ToolArgs == {JsUndefined, JsNumber(42), JsNumber(0), JsString(""),
             JsString("dev ops"), JsString("  ")}
ToolNames == {"chat_linkedin_jobs", "other_tool"}
NoRequest == [name |-> "", arg |-> JsUndefined]
\* !v
Falsy(v) == \/ v.type = "undefined"
            \/ v.type = "string" /\ v.str = ""
            \/ v.type = "number" /\ v.num = 0

\* Math.random() * 1000, the extremes of [0, 1000)
Jitters == {0, JitterRange - 1}
\* How far the clock moves when nothing else happens.
TickSteps == {TTL, TTL + 1}
\* The failures of axios.get: status 429, or anything else
Failures == {"429", "other"}
\* The keys and values of direct JobCache calls
CacheKeys == {url(NewQuery(DevOps(<<>>)), 0), "k"}
CacheValues == {<<>>, parseJobList(MakePage(<<"full">>, "v", "x")),
                parseJobList(MakePage(<<"bare", "full">>, "w", "x"))}

Calls == {1, 2}
First == CHOOSE c \in Calls : \A d \in Calls : c <= d

\* ------------------------------------------------------------ tool response
NoResponse == [kind |-> "none", text |-> ""]
Pending == [kind |-> "pending", text |-> ""]
Content(text) == [kind |-> "content", text |-> text]
Failure(message) == [kind |-> "error", text |-> message]

Field(name, v) == "\"" \o name \o "\":\"" \o v \o "\""
\* JSON.stringify of one JobData: an undefined date is left out
StringifyJob(j) ==
    "{" \o Field("position", j.position) \o "," \o Field("company", j.company)
    \o "," \o Field("location", j.location)
    \o (IF j.date = <<>> THEN "" ELSE "," \o Field("date", j.date[1]))
    \o "," \o Field("salary", j.salary) \o "," \o Field("jobUrl", j.jobUrl)
    \o "," \o Field("companyLogo", j.companyLogo)
    \o "," \o Field("agoTime", j.agoTime) \o "}"

RECURSIVE JoinComma(_)
JoinComma(ss) == IF ss = <<>> THEN ""
                 ELSE IF Len(ss) = 1 THEN ss[1]
                 ELSE ss[1] \o "," \o JoinComma(Tail(ss))
\* JSON.stringify(jobs, null, 2), without the indentation
JSONstringify(jobs) ==
    "[" \o JoinComma([i \in 1..Len(jobs) |-> StringifyJob(jobs[i])]) \o "]"

\* ---------------------------------------------------------------- getJobs
\* What a call was given: the QueryObject it was made with, and for each of
\* its fetches whether it failed or which page answered it and the
\* Math.random() of the pacing delay that followed.
CallInput(qo) == [kind |-> "call", qo |-> qo, shape |-> <<>>, jitter |-> 0]
FailInput == [kind |-> "fail", qo |-> NoFields, shape |-> <<>>, jitter |-> 0]
PageInput(shape, jitter) ==
    [kind |-> "ok", qo |-> NoFields, shape |-> shape, jitter |-> jitter]

IdleQuery == NewQuery(NoFields)
\* No call is between its start and its return.
Quiet == \A c \in Calls : pc[c] \in {"idle", "done", "rejected"}
\* The slots are used in order, one call after the other has returned.
Turn(c) == Quiet /\ \A d \in Calls : d < c => pc[d] # "idle"
Max(a, b) == IF a >= b THEN a ELSE b
Min(a, b) == IF a <= b THEN a ELSE b
RECURSIVE Pow2(_)
Pow2(n) == IF n = 0 THEN 1 ELSE 2 * Pow2(n - 1)
\* Array.prototype.slice(0, n) for n >= 0
Slice(s, n) == SubSeq(s, 1, Min(n, Len(s)))

\* if (cachedJobs)
CacheHit(cachedJobs) == cachedJobs # Null
\* A loop that takes an empty page for a page like any other.
NeverNoMore(jobs) == FALSE

\* if (!jobs || jobs.length === 0)
NoMore(jobs) == Len(jobs) = 0
\* A limit test that stops only once the limit is exceeded.
LimitExceeded(q, jobs) == q.limit # 0 /\ Len(jobs) > q.limit

\* if (this.limit && allJobs.length >= this.limit)
LimitReached(q, jobs) == q.limit # 0 /\ Len(jobs) >= q.limit
\* allJobs.slice(0, this.limit)
Truncate(q, jobs) == Slice(jobs, q.limit)
\* A threshold passed only by the failure after the third.
TooManyErrorsLate(n) == n > MAX_CONSECUTIVE_ERRORS

\* if (consecutiveErrors >= MAX_CONSECUTIVE_ERRORS)
TooManyErrors(n) == n >= MAX_CONSECUTIVE_ERRORS
\* A loop that forgets to reset the counter.
ErrorsKept(n) == n

\* the counter after a successful fetch that continues the loop
ErrorsAfterSuccess(n) == 0
\* the counter after a failed fetch
ErrorsAfterFailure(n) == n + 1
\* An advance that jumps over a page.
NextStartSkips(st) == st + 2 * BATCH_SIZE

\* start += BATCH_SIZE
NextStart(st) == st + BATCH_SIZE
\* A pacing delay of the random part alone.
PaceDelayJitterOnly(jitter) == jitter

\* 2000 + Math.random() * 1000
PaceDelay(jitter) == PaceBase + jitter
\* A backoff that starts the doubling one step late.
BackoffDelayLate(n) == Pow2(n - 1) * BackoffUnit

\* Math.pow(2, consecutiveErrors) * 1000
BackoffDelay(n) == Pow2(n) * BackoffUnit
\* A cache write that does not look at the length.
AlwaysCache(jobs) == TRUE

\* if (allJobs.length > 0)
ShouldCache(jobs) == Len(jobs) > 0
\* the message of the error fetchJobBatch throws
ErrorMessage(failure) == IF failure = "429" THEN "Rate limit reached"
                         ELSE "Request failed"

\* What a tool request answers when its getJobs call settles.
Respond(resp, jobs, outc) ==
    IF resp.kind # "pending" THEN resp
    ELSE IF outc = "ok" THEN Content(JSONstringify(jobs))
    ELSE Failure("Failed to fetch jobs")

\* getJobs returns `jobs` (outc "ok") or throws (outc "throw")
Settle(c, jobs, outc) ==
    /\ pc' = [pc EXCEPT ![c] = "done"]
    /\ result' = [result EXCEPT ![c] = jobs]
    /\ outcome' = [outcome EXCEPT ![c] = outc]
    /\ response' = [response EXCEPT ![c] = Respond(response[c], jobs, outc)]

\* A loop exit that gives up what was gathered and throws.
FinalizeOrThrow(c, jobs) ==
    /\ UNCHANGED <<cache, lastSet, cacheWrites, allJobs>>
    /\ IF outcomes'[c][Len(outcomes'[c])] = "fail"
       THEN Settle(c, <<>>, "throw")
       ELSE Settle(c, jobs, "ok")

\* A return that does not put a shorter result over a longer one.
FinalizeKeepsLonger(c, jobs) ==
    /\ IF /\ ShouldCache(jobs)
          /\ \/ url(query[c], 0) \notin DOMAIN cache
             \/ Len(cache[url(query[c], 0)].data) <= Len(jobs)
       THEN /\ cache' = CacheSet(cache, url(query[c], 0), jobs, now)
            /\ lastSet' = CacheSet(lastSet, url(query[c], 0), jobs, now)
            /\ cacheWrites' = [cacheWrites EXCEPT ![c] = @ + 1]
       ELSE UNCHANGED <<cache, lastSet, cacheWrites>>
    /\ allJobs' = [allJobs EXCEPT ![c] = jobs]
    /\ Settle(c, jobs, "ok")

\* A return that files the results under the URL of the last offset.
FinalizeUnderLastUrl(c, jobs) ==
    /\ IF ShouldCache(jobs)
       THEN /\ cache' = CacheSet(cache, url(query[c], start[c]), jobs, now)
            /\ lastSet' = CacheSet(lastSet, url(query[c], start[c]), jobs, now)
            /\ cacheWrites' = [cacheWrites EXCEPT ![c] = @ + 1]
       ELSE UNCHANGED <<cache, lastSet, cacheWrites>>
    /\ allJobs' = [allJobs EXCEPT ![c] = jobs]
    /\ Settle(c, jobs, "ok")

\* Lines 306-312: cache the results if there are any, and return them.
Finalize(c, jobs) ==
    /\ IF ShouldCache(jobs)
       THEN /\ cache' = CacheSet(cache, url(query[c], 0), jobs, now)
            /\ lastSet' = CacheSet(lastSet, url(query[c], 0), jobs, now)
            /\ cacheWrites' = [cacheWrites EXCEPT ![c] = @ + 1]
       ELSE UNCHANGED <<cache, lastSet, cacheWrites>>
    /\ allJobs' = [allJobs EXCEPT ![c] = jobs]
    /\ Settle(c, jobs, "ok")

\* this.fetchJobBatch(start): the request goes out
IssueFetch(c, st) ==
    /\ pc' = [pc EXCEPT ![c] = "fetching"]
    /\ fetchLog' = [fetchLog EXCEPT ![c] = Append(@, st)]
    /\ lastFetchAt' = [lastFetchAt EXCEPT ![c] = now']

\* new Query(queryObj).getJobs() up to its first await: the cache check and,
\* on a miss, the first fetch.  `resp` is Pending when the tool handler calls.
GetJobs(c, queryObj, resp) ==
    LET q == NewQuery(queryObj)
        cacheKey == url(q, 0)
        cachedJobs == CacheGet(cache, cacheKey, now)
    IN  /\ pc[c] = "idle"
        /\ query' = [query EXCEPT ![c] = q]
        /\ cache' = CacheAfterGet(cache, cacheKey, now)
        /\ cacheReads' = [cacheReads EXCEPT ![c] = @ + 1]
        /\ inputs' = [inputs EXCEPT ![c] = Append(@, CallInput(queryObj))]
        /\ cacheDeletes' = [cacheDeletes EXCEPT ![c] =
                               @ + CacheSize(cache) - CacheSize(cache')]
        /\ UNCHANGED <<now, lastSet, allJobs, start, consecutiveErrors, wakeAt,
                       lastError, outcomes, pagesLog, waits, cacheWrites, cop,
                       parseVars>>
        /\ IF CacheHit(cachedJobs)
           THEN /\ hit' = [hit EXCEPT ![c] = TRUE]
                /\ pc' = [pc EXCEPT ![c] = "done"]
                /\ result' = [result EXCEPT ![c] = cachedJobs[1]]
                /\ outcome' = [outcome EXCEPT ![c] = "ok"]
                /\ response' = [response EXCEPT ![c] = Respond(resp, cachedJobs[1], "ok")]
                /\ UNCHANGED <<fetchLog, lastFetchAt>>
           ELSE /\ IssueFetch(c, 0)
                /\ response' = [response EXCEPT ![c] = resp]
                /\ UNCHANGED <<hit, result, outcome>>

\* A caller inside the module calls getJobs on a Query of its own.
DirectCall(c, queryObj) ==
    /\ GetJobs(c, queryObj, NoResponse)
    /\ UNCHANGED request

\* A catch block that gives up at once when the source limits the rate.
FetchFailStopsOn429(c, failure) ==
    LET n == ErrorsAfterFailure(consecutiveErrors[c])
    IN  /\ pc[c] = "fetching"
        /\ consecutiveErrors' = [consecutiveErrors EXCEPT ![c] = n]
        /\ lastError' = [lastError EXCEPT ![c] = ErrorMessage(failure)]
        /\ outcomes' = [outcomes EXCEPT ![c] = Append(@, "fail")]
        /\ inputs' = [inputs EXCEPT ![c] = Append(@, FailInput)]
        /\ UNCHANGED <<now, query, start, pagesLog, hit, fetchLog, lastFetchAt,
                       request, cacheReads, cacheDeletes, cop, parseVars>>
        /\ IF TooManyErrors(n) \/ failure = "429"
           THEN /\ Finalize(c, allJobs[c])
                /\ UNCHANGED <<wakeAt, waits>>
           ELSE /\ pc' = [pc EXCEPT ![c] = "backoff"]
                /\ wakeAt' = [wakeAt EXCEPT ![c] = now + BackoffDelay(n)]
                /\ waits' = [waits EXCEPT ![c] = Append(@, BackoffDelay(n))]
                /\ UNCHANGED <<cache, lastSet, cacheWrites, allJobs, result,
                               outcome, response>>

\* The fetch of call c fails: the catch block of the loop.
FetchFail(c, failure) ==
    LET n == ErrorsAfterFailure(consecutiveErrors[c])
    IN  /\ pc[c] = "fetching"
        /\ consecutiveErrors' = [consecutiveErrors EXCEPT ![c] = n]
        /\ lastError' = [lastError EXCEPT ![c] = ErrorMessage(failure)]
        /\ outcomes' = [outcomes EXCEPT ![c] = Append(@, "fail")]
        /\ inputs' = [inputs EXCEPT ![c] = Append(@, FailInput)]
        /\ UNCHANGED <<now, query, start, pagesLog, hit, fetchLog, lastFetchAt,
                       request, cacheReads, cacheDeletes, cop, parseVars>>
        /\ IF TooManyErrors(n)
           THEN /\ Finalize(c, allJobs[c])
                /\ UNCHANGED <<wakeAt, waits>>
           ELSE /\ pc' = [pc EXCEPT ![c] = "backoff"]
                /\ wakeAt' = [wakeAt EXCEPT ![c] = now + BackoffDelay(n)]
                /\ waits' = [waits EXCEPT ![c] = Append(@, BackoffDelay(n))]
                /\ UNCHANGED <<cache, lastSet, cacheWrites, allJobs, result,
                               outcome, response>>

\* The fetch of call c answers 200 with a page of the items `shape` lists.
FetchOk(c, shape, jitter) ==
    LET q == query[c]
        page == MakePage(shape, NumToStr(start[c] + getPage(q)), q.keyword)
        jobs == parseJobList(page)
        all == allJobs[c] \o jobs
    IN  /\ pc[c] = "fetching"
        /\ UNCHANGED <<now, query, lastError, hit, fetchLog, lastFetchAt,
                       request, cacheReads, cacheDeletes, cop>>
        /\ rawPage' = page
        /\ parsed' = <<jobs>>
        /\ outcomes' = [outcomes EXCEPT ![c] = Append(@, "ok")]
        /\ inputs' = [inputs EXCEPT ![c] = Append(@, PageInput(shape, jitter))]
        /\ pagesLog' = [pagesLog EXCEPT ![c] = Append(@, jobs)]
        /\ IF NoMore(jobs)
           THEN /\ Finalize(c, allJobs[c])
                /\ UNCHANGED <<start, consecutiveErrors, wakeAt, waits>>
           ELSE IF LimitReached(q, all)
           THEN /\ Finalize(c, Truncate(q, all))
                /\ UNCHANGED <<start, consecutiveErrors, wakeAt, waits>>
           ELSE /\ allJobs' = [allJobs EXCEPT ![c] = all]
                /\ consecutiveErrors' = [consecutiveErrors EXCEPT ![c] =
                                            ErrorsAfterSuccess(@)]
                /\ start' = [start EXCEPT ![c] = NextStart(@)]
                /\ pc' = [pc EXCEPT ![c] = "pacing"]
                /\ wakeAt' = [wakeAt EXCEPT ![c] = now + PaceDelay(jitter)]
                /\ waits' = [waits EXCEPT ![c] = Append(@, PaceDelay(jitter))]
                /\ UNCHANGED <<cache, lastSet, cacheWrites, result, outcome,
                               response>>

\* The timer of call c fires, no sooner than asked, and the loop fetches again.
DelayDone(c, cap) ==
    /\ pc[c] \in {"pacing", "backoff"}
    /\ Len(fetchLog[c]) < cap
    /\ Max(now, wakeAt[c]) <= MaxTime
    /\ now' = Max(now, wakeAt[c])
    /\ IssueFetch(c, start[c])
    /\ UNCHANGED <<cache, lastSet, query, allJobs, start, consecutiveErrors,
                   wakeAt, lastError, result, outcome, response, request,
                   outcomes, pagesLog, waits, hit, cacheReads, cacheWrites,
                   cacheDeletes, inputs, cop, parseVars>>

\* ------------------------------------------------------------ tool handler
\* A check of the type alone.
NotAString(v) == v.type # "string"

\* if (!query || typeof query !== "string") throw
BadQueryArg(v) == Falsy(v) \/ v.type # "string"
\* The QueryObject the handler builds from the query string.
ToolQuery(text) == [NoFields EXCEPT !.keyword = <<text>>,
                                    !.location = <<"London">>,
                                    !.limit = <<ToolLimit>>]

\* A CallTool request for tool `name` with arguments.query = arg.
ToolCall(c, name, arg) ==
    /\ pc[c] = "idle"
    /\ request' = [request EXCEPT ![c] = [name |-> name, arg |-> arg]]
    /\ IF name # "chat_linkedin_jobs"
       THEN /\ pc' = [pc EXCEPT ![c] = "rejected"]
            /\ response' = [response EXCEPT ![c] = Failure("Unknown tool")]
            /\ UNCHANGED <<procVars, query, allJobs, start, consecutiveErrors,
                           wakeAt, lastError, result, outcome, fetchLog,
                           outcomes, pagesLog, waits, lastFetchAt, hit,
                           cacheReads, cacheWrites, cacheDeletes, inputs,
                           cop, parseVars>>
       ELSE IF BadQueryArg(arg)
       THEN /\ pc' = [pc EXCEPT ![c] = "rejected"]
            /\ response' = [response EXCEPT ![c] =
                               Failure("Query is required and must be a string")]
            /\ UNCHANGED <<procVars, query, allJobs, start, consecutiveErrors,
                           wakeAt, lastError, result, outcome, fetchLog,
                           outcomes, pagesLog, waits, lastFetchAt, hit,
                           cacheReads, cacheWrites, cacheDeletes, inputs,
                           cop, parseVars>>
       ELSE GetJobs(c, ToolQuery(arg.str), Pending)

\* ------------------------------------------------------------------- clock
\* Time passes between the calls.  The clock is only ever compared with the
\* timestamps of cache entries, so it is followed only while there is one.
Tick(d) ==
    /\ Quiet
    /\ cache # <<>>
    /\ now + d <= MaxTime
    /\ now' = now + d
    /\ UNCHANGED <<cache, lastSet, callVars, obsVars, cop, parseVars>>

\* ------------------------------------------------- JobCache, called directly
NoOp == [op |-> "none", key |-> "", ret |-> Null, size |-> 0, removed |-> 0,
         at |-> 0]

\* export clearCache
ClearCache ==
    /\ cache' = CacheClear(cache, now)
    /\ cop' = [op |-> "clear", key |-> "", ret |-> Null, size |-> 0,
               removed |-> CacheSize(cache) - CacheSize(cache'), at |-> now]
    /\ UNCHANGED <<now, lastSet, callVars, obsVars, parseVars>>

\* export getCacheSize
GetCacheSize ==
    /\ cop' = [op |-> "size", key |-> "", ret |-> Null,
               size |-> CacheSize(cache), removed |-> 0, at |-> now]
    /\ UNCHANGED <<procVars, callVars, obsVars, parseVars>>

\* cache.set(key, value)
CacheOpSet(key, value) ==
    /\ cache' = CacheSet(cache, key, value, now)
    /\ lastSet' = CacheSet(lastSet, key, value, now)
    /\ cop' = [op |-> "set", key |-> key, ret |-> Null, size |-> 0,
               removed |-> 0, at |-> now]
    /\ UNCHANGED <<now, callVars, obsVars, parseVars>>

\* cache.get(key)
CacheOpGet(key) ==
    /\ cache' = CacheAfterGet(cache, key, now)
    /\ cop' = [op |-> "get", key |-> key, ret |-> CacheGet(cache, key, now),
               size |-> 0, removed |-> CacheSize(cache) - CacheSize(cache'),
               at |-> now]
    /\ UNCHANGED <<now, lastSet, callVars, obsVars, parseVars>>

\* ------------------------------------------------- parseJobList, on its own
Parse ==
    /\ parsed = Null
    /\ parsed' = <<parseJobList(rawPage)>>
    /\ UNCHANGED <<procVars, callVars, obsVars, cop, rawPage>>

\* ---------------------------------------------------------- specifications
InitCalls ==
    /\ pc = [c \in Calls |-> "idle"]
    /\ query = [c \in Calls |-> IdleQuery]
    /\ allJobs = [c \in Calls |-> <<>>]
    /\ start = [c \in Calls |-> 0]
    /\ consecutiveErrors = [c \in Calls |-> 0]
    /\ wakeAt = [c \in Calls |-> 0]
    /\ lastError = [c \in Calls |-> ""]
    /\ result = [c \in Calls |-> <<>>]
    /\ outcome = [c \in Calls |-> "none"]
    /\ response = [c \in Calls |-> NoResponse]
    /\ request = [c \in Calls |-> NoRequest]
    /\ fetchLog = [c \in Calls |-> <<>>]
    /\ outcomes = [c \in Calls |-> <<>>]
    /\ pagesLog = [c \in Calls |-> <<>>]
    /\ waits = [c \in Calls |-> <<>>]
    /\ cacheReads = [c \in Calls |-> 0]
    /\ lastFetchAt = [c \in Calls |-> 0]
    /\ hit = [c \in Calls |-> FALSE]
    /\ cacheWrites = [c \in Calls |-> 0]
    /\ cacheDeletes = [c \in Calls |-> 0]
    /\ inputs = [c \in Calls |-> <<>>]

InitProc ==
    /\ now = 0
    /\ cache = <<>>
    /\ lastSet = <<>>
    /\ cop = NoOp

Init ==
    /\ InitProc
    /\ InitCalls
    /\ rawPage = <<>>
    /\ parsed = Null

\* The server: two requests or calls, one after the other.
Next ==
    \/ \E c \in Calls, qo \in ServerQueries : Turn(c) /\ DirectCall(c, qo)
    \/ \E c \in Calls, name \in ToolNames, arg \in ToolArgs :
          Turn(c) /\ ToolCall(c, name, arg)
    \/ \E c \in Calls : FetchFail(c, "other")
    \/ \E c \in Calls, shape \in ServerShapes : FetchOk(c, shape, 0)
    \/ \E c \in Calls : DelayDone(c, MaxServerFetches)
    \/ \E d \in TickSteps : Tick(d)
    \/ ClearCache

Spec == Init /\ [][Next]_vars

\* One getJobs call of a fresh process, on every course the fetches can take.
NextLoop ==
    \/ \E qo \in QueryObjects : pc[First] = "idle" /\ DirectCall(First, qo)
    \/ \E f \in Failures : FetchFail(First, f)
    \/ \E shape \in FetchShapes, j \in Jitters : FetchOk(First, shape, j)
    \/ DelayDone(First, MaxFetches)

SpecLoop == Init /\ [][NextLoop]_vars

\* The JobCache class on its own.
NextCache ==
    \/ \E k \in CacheKeys, v \in CacheValues : CacheOpSet(k, v)
    \/ \E k \in CacheKeys : CacheOpGet(k)
    \/ ClearCache
    \/ GetCacheSize
    \/ \E d \in TickSteps : Tick(d)

SpecCache == Init /\ [][NextCache]_vars

\* parseJobList on every page of at most MaxItems items.
InitParse ==
    /\ InitProc
    /\ InitCalls
    /\ rawPage \in {MakePage(shape, "0", "x") : shape \in SeqsUpTo(ItemKinds, MaxItems)}
    /\ parsed = Null

SpecParse == InitParse /\ [][Parse]_vars

\* Two runs of getJobs on the same inputs, side by side: call 2 is given the
\* QueryObject, the pages and the random numbers call 1 was given, and fails
\* where call 1 failed, but each failure is a 429 or not independently of
\* the other run.  The runs advance in step, so both read the same clock.
Leader == First
Follower == CHOOSE c \in Calls : c # Leader
TwinShapes == {<<>>, <<"neither", "full">>}
InStep == /\ Len(inputs[Leader]) = Len(inputs[Follower])
          /\ Len(fetchLog[Leader]) = Len(fetchLog[Follower])

LeaderStep ==
    /\ InStep
    /\ \/ \E qo \in QueryObjects : DirectCall(Leader, qo)
       \/ \E f \in Failures : FetchFail(Leader, f)
       \/ \E shape \in TwinShapes : FetchOk(Leader, shape, JitterRange - 1)
       \/ DelayDone(Leader, MaxFetches)

FollowerStep ==
    \/ /\ Len(inputs[Follower]) < Len(inputs[Leader])
       /\ LET in == inputs[Leader][Len(inputs[Follower]) + 1]
          IN  CASE in.kind = "call" -> DirectCall(Follower, in.qo)
                [] in.kind = "fail" -> \E f \in Failures : FetchFail(Follower, f)
                [] OTHER -> FetchOk(Follower, in.shape, in.jitter)
    \/ /\ Len(fetchLog[Follower]) < Len(fetchLog[Leader])
       /\ Len(inputs[Follower]) = Len(inputs[Leader])
       /\ DelayDone(Follower, MaxFetches)

NextTwin == LeaderStep \/ FollowerStep

SpecTwin == Init /\ [][NextTwin]_vars

\* Two getJobs calls for one cache key in flight together: the second starts
\* before the first has returned, and from then on either one takes the next
\* step whenever its fetch is answered or its timer fires.
ConcQueries == {DevOps(<<>>), DevOps(<<1>>)}
Overlapping(c) == \A d \in Calls \ {c} : pc[d] # "done"

NextConc ==
    \/ \E c \in Calls, qo \in ConcQueries : Overlapping(c) /\ DirectCall(c, qo)
    \/ \E c \in Calls : FetchFail(c, "other")
    \/ \E c \in Calls, shape \in ServerShapes : FetchOk(c, shape, 0)
    \/ \E c \in Calls : DelayDone(c, MaxServerFetches)

SpecConc == Init /\ [][NextConc]_vars

\* One getJobs call followed until it returns, for limits 0, 1 and 2.  Every
\* fetch is answered in the end (axios is given a timeout of 10 s, line 340)
\* and every timer fires, so both are taken to happen eventually.
LimitQueries == {DevOps(<<>>), DevOps(<<1>>), DevOps(<<2>>)}
Answered ==
    \/ FetchFail(First, "other")
    \/ \E shape \in TwinShapes : FetchOk(First, shape, 0)
TimerFires == DelayDone(First, MaxLimitFetches)

NextLimit ==
    \/ \E qo \in LimitQueries : DirectCall(First, qo)
    \/ Answered
    \/ TimerFires

SpecLimit ==
    Init /\ [][NextLimit]_vars /\ WF_vars(Answered) /\ WF_vars(TimerFires)

\* ------------------------------------------------------------- properties
RECURSIVE Flatten(_)
\* The pages of a log, one after the other
Flatten(pages) == IF pages = <<>> THEN <<>>
                  ELSE Head(pages) \o Flatten(Tail(pages))

RECURSIVE TrailingFails(_)
\* The number of failures at the end of a log of fetch outcomes
TrailingFails(log) ==
    IF log = <<>> \/ log[Len(log)] # "fail" THEN 0
    ELSE 1 + TrailingFails(SubSeq(log, 1, Len(log) - 1))

AllFail(log) == \A i \in 1..Len(log) : log[i] = "fail"
Occurrences(x, log) == Cardinality({i \in 1..Len(log) : log[i] = x})
Started(c) == pc[c] \notin {"idle", "rejected"}
InLoop(c) == pc[c] \in {"fetching", "pacing", "backoff"}
LoopDone(c) == pc[c] = "done" /\ ~hit[c]

\* C1: a getJobs call that completes its fetch loop with a non-empty result
\* leaves that result in the cache under the offset-zero URL, stamped with the
\* time; and a call that starts while the entry of its offset-zero URL is at
\* most TTL old returns the stored sequence at once: no fetch is issued, no
\* delay is waited for and the entry stays as it was.
C1_HitReturnsStoredNoFetch ==
    [][\A c \in Calls :
          LET key == url(query'[c], 0)
          IN  /\ (~Started(c) /\ Started(c)' /\ key \in DOMAIN cache
                    /\ now - cache[key].timestamp <= TTL)
                 => /\ pc'[c] = "done" /\ outcome'[c] = "ok"
                    /\ result'[c] = cache[key].data
                    /\ fetchLog'[c] = <<>> /\ waits'[c] = <<>>
                    /\ cache' = cache
              /\ (InLoop(c) /\ LoopDone(c)' /\ result'[c] # <<>>)
                 => /\ key \in DOMAIN cache'
                    /\ cache'[key] = [data |-> result'[c], timestamp |-> now']
       ]_vars

\* C1 witness: the second call is served from the entry the first one stored,
\* at the very end of its TTL.
C1_Witness ==
    /\ LoopDone(1) /\ result[1] # <<>>
    /\ pc[2] = "done" /\ hit[2] /\ result[2] = result[1]
    /\ url(query[2], 0) = url(query[1], 0)
    /\ now - cache[url(query[2], 0)].timestamp = TTL

\* C2: every call on a query with a positive limit L returns at most L
\* records, from the fetch loop or from the cache.
C2_AtMostLimit ==
    \A c \in Calls :
        (pc[c] = "done" /\ query[c].limit > 0)
            => Len(result[c]) <= query[c].limit

\* C3: on a miss with a positive limit L, as soon as the pages fetched hold
\* L records or more the loop is over: no further fetch is issued, and the
\* call returns exactly L records, the first L of the pages fetched
\* successfully, in fetch order.
C3_LimitStopsAndTruncates ==
    \A c \in Calls :
        LET L == query[c].limit
            got == Flatten(pagesLog[c])
        IN  (Started(c) /\ ~hit[c] /\ L > 0 /\ Len(got) >= L)
            => /\ pc[c] = "done" /\ outcome[c] = "ok"
               /\ Len(fetchLog[c]) = Len(outcomes[c])
               /\ Len(result[c]) = L
               /\ result[c] = SubSeq(got, 1, L)
               /\ Len(got) - Len(pagesLog[c][Len(pagesLog[c])]) < L

\* C3 witness: limit 3 is passed in the middle of the second page.
C3_Witness ==
    /\ pc[1] = "done" /\ query[1].limit = 3
    /\ Len(pagesLog[1]) = 2 /\ Len(Flatten(pagesLog[1])) = 4
    /\ Len(result[1]) = 3

\* C4: on a miss, while every fetch has failed the fetches are all at offset
\* 0; the call goes on until the third failure and ends with it, returning
\* the empty sequence as a normal result, with no cache entry for the query.
C4_AllFailuresReturnEmpty ==
    \A c \in Calls :
        (Started(c) /\ ~hit[c] /\ AllFail(outcomes[c]))
        => /\ Len(fetchLog[c]) <= 3
           /\ \A i \in 1..Len(fetchLog[c]) : fetchLog[c][i] = 0
           /\ (pc[c] = "done") <=> (Len(outcomes[c]) = 3)
           /\ pc[c] = "done"
              => /\ Len(fetchLog[c]) = 3
                 /\ result[c] = <<>> /\ outcome[c] = "ok"
                 /\ url(query[c], 0) \notin DOMAIN cache

\* C4 witness: three failures and the call is over.
C4_Witness ==
    /\ pc[1] = "done" /\ outcomes[1] = <<"fail", "fail", "fail">>
    /\ fetchLog[1] = <<0, 0, 0>>

\* C5: getJobs never throws on fetch failures; when the loop ends on the
\* third failure in a row, the call returns, as a success, exactly the
\* records of the pages fetched before.
C5_PartialResultOnErrors ==
    \A c \in Calls :
        /\ outcome[c] # "throw"
        /\ (pc[c] = "done" /\ ~hit[c] /\ TrailingFails(outcomes[c]) > 0)
           => /\ outcome[c] = "ok"
              /\ result[c] = Flatten(pagesLog[c])

\* C5 witness: a page of records, then three failures.
C5_Witness ==
    /\ pc[1] = "done" /\ outcomes[1] = <<"ok", "fail", "fail", "fail">>
    /\ result[1] # <<>>

\* C6: get(key) returns the sequence of the most recent set(key, v) exactly
\* when there is one and it is at most TTL old (an entry aged exactly TTL
\* is still valid); otherwise it returns null, and an entry found expired is
\* no longer in the cache afterwards.
C6_GetWithinTTL ==
    (cop.op = "get" /\ cop.at = now)
    => LET k == cop.key
           stored == k \in DOMAIN lastSet
           fresh == stored /\ now - lastSet[k].timestamp <= TTL
       IN  /\ cop.ret = IF fresh THEN <<lastSet[k].data>> ELSE Null
           /\ fresh => /\ k \in DOMAIN cache
                       /\ cache[k] = lastSet[k]
           /\ ~fresh => k \notin DOMAIN cache

\* C6 witness: a get of an entry aged exactly TTL finds it, and a get of an
\* entry one millisecond older has removed it.
C6_Witness ==
    /\ cop.op = "get" /\ cop.at = now
    /\ \E k \in DOMAIN lastSet :
          /\ now - lastSet[k].timestamp = TTL
          /\ cop.key = k /\ cop.ret = <<lastSet[k].data>>
    /\ \E k \in DOMAIN lastSet :
          /\ now - lastSet[k].timestamp > TTL /\ k \notin DOMAIN cache

InputFailure == Failure("Query is required and must be a string")
ToolRequest(c) == request[c].name = "chat_linkedin_jobs"

\* C7, as claimed: the tool signals an input failure exactly when the query
\* argument is missing or is not a string.
C7_RejectsOnlyNonStrings ==
    \A c \in Calls :
        ToolRequest(c)
        => ((response[c] = InputFailure) <=> (request[c].arg.type # "string"))

\* C7, amended: the tool signals an input failure exactly when the query
\* argument is missing, is not a string or is the empty string, and then
\* reads no cache entry, writes none and fetches nothing.  Every other call
\* goes on to the search with the raw string as keyword, location "London"
\* and limit 10, and answers the serialized records, or a generic failure if
\* getJobs throws.
C7_RejectsFalsyOrNonString ==
    \A c \in Calls :
        ToolRequest(c)
        => LET arg == request[c].arg
               bad == arg.type # "string" \/ arg.str = ""
           IN  /\ (response[c] = InputFailure) <=> bad
               /\ (pc[c] = "rejected") <=> bad
               /\ bad => /\ cacheReads[c] = 0 /\ cacheWrites[c] = 0
                         /\ fetchLog[c] = <<>> /\ outcome[c] = "none"
               /\ ~bad => /\ query[c] = NewQuery([NoFields EXCEPT
                                          !.keyword = <<arg.str>>,
                                          !.location = <<"London">>,
                                          !.limit = <<10>>])
                          /\ cacheReads[c] = 1
                          /\ response[c] =
                               IF pc[c] # "done" THEN Pending
                               ELSE IF outcome[c] = "ok"
                               THEN Content(JSONstringify(result[c]))
                               ELSE Failure("Failed to fetch jobs")

\* C7 witness: the empty string is refused, and a string of blanks is
\* searched for and answered with records.
C7_Witness ==
    /\ request[1] = [name |-> "chat_linkedin_jobs", arg |-> JsString("")]
    /\ pc[1] = "rejected"
    /\ request[2] = [name |-> "chat_linkedin_jobs", arg |-> JsString("  ")]
    /\ pc[2] = "done" /\ result[2] # <<>> /\ response[2].kind = "content"

\* The items of a page that have a position and a company, in page order
Kept(page) ==
    SelectSeq(page, LAMBDA el : Trim(el.title) # "" /\ Trim(el.subtitle) # "")

\* C8: parseJobList returns one record for every item of the page that has a
\* non-empty position and a non-empty company, and for no other item, in
\* page order; so every record getJobs returns has both.
C8_KeepsExactlyValidItems ==
    /\ parsed # Null
       => /\ Len(parsed[1]) = Len(Kept(rawPage))
          /\ \A i \in 1..Len(parsed[1]) :
                /\ parsed[1][i].position = Trim(Kept(rawPage)[i].title)
                /\ parsed[1][i].company = Trim(Kept(rawPage)[i].subtitle)
    /\ \A c \in Calls : \A i \in 1..Len(result[c]) :
          result[c][i].position # "" /\ result[c][i].company # ""

\* C8 witness: a page of three items lost its middle one, and the call that
\* fetched it returned records.
C8_Witness ==
    /\ parsed # Null /\ Len(rawPage) = 3 /\ Len(parsed[1]) = 2
    /\ pc[1] = "done" /\ Len(result[1]) >= 2

\* C9: after the k-th failure in a row, k < 3, the loop waits 2^k seconds
\* and then fetches the same offset again; after the third it neither waits
\* nor fetches.
C9_BackoffThenSameOffset ==
    \A c \in Calls :
        LET k == TrailingFails(outcomes[c])
            n == Len(fetchLog[c])
        IN  /\ pc[c] = "backoff"
               => /\ k \in {1, 2}
                  /\ waits[c][Len(waits[c])] = (IF k = 1 THEN 2000 ELSE 4000)
                  /\ wakeAt[c] = now + waits[c][Len(waits[c])]
                  /\ Len(waits[c]) = Len(outcomes[c])
            /\ (pc[c] = "fetching" /\ k > 0)
               => /\ fetchLog[c][n] = fetchLog[c][n - 1]
                  /\ lastFetchAt[c] >= wakeAt[c]
                  /\ waits[c][Len(waits[c])] = (IF k = 1 THEN 2000 ELSE 4000)
            /\ (LoopDone(c) /\ k > 0)
               => /\ k = 3
                  /\ Len(fetchLog[c]) = Len(outcomes[c])
                  /\ Len(waits[c]) = Len(outcomes[c]) - 1

\* C9 witness: two failures, waits of 2 and 4 seconds, and the third fetch of
\* offset 0 is out.
C9_Witness ==
    /\ pc[1] = "fetching" /\ outcomes[1] = <<"fail", "fail">>
    /\ waits[1] = <<2000, 4000>> /\ fetchLog[1] = <<0, 0, 0>>
    /\ lastFetchAt[1] = 6000

\* C10: in the loop the counter is the number of failures since the last
\* successful fetch; it stays within 0..3 and is below 3 when a fetch is
\* issued; no offset is fetched more than 3 times, and the loop ends on a
\* failure only at the third in a row.
C10_CounterCountsTrailingFailures ==
    \A c \in Calls :
        /\ consecutiveErrors[c] \in 0..3
        /\ InLoop(c) => consecutiveErrors[c] = TrailingFails(outcomes[c])
        /\ pc[c] = "fetching" => consecutiveErrors[c] < 3
        /\ \A i \in 1..Len(fetchLog[c]) :
              Occurrences(fetchLog[c][i], fetchLog[c]) <= 3
        /\ (LoopDone(c) /\ TrailingFails(outcomes[c]) > 0)
           => /\ TrailingFails(outcomes[c]) = 3
              /\ consecutiveErrors[c] = 3

\* C10 witness: a success between failures has reset the counter.
C10_Witness ==
    /\ pc[1] = "backoff" /\ outcomes[1] = <<"fail", "fail", "ok", "fail">>
    /\ consecutiveErrors[1] = 1

\* C11: a fetch answered with a page of no records ends the loop at once:
\* the call returns, as a success, the records of the earlier pages, with no
\* further wait and no further fetch, also when failed attempts at that
\* offset came before; and a call that has returned does nothing more.
C11_EmptyPageEndsLoop ==
    [][\A c \in Calls :
          /\ ( /\ pc[c] = "fetching"
               /\ Len(pagesLog'[c]) = Len(pagesLog[c]) + 1
               /\ pagesLog'[c][Len(pagesLog'[c])] = <<>> )
             => /\ pc'[c] = "done"
                /\ outcome'[c] = "ok"
                /\ result'[c] = allJobs[c]
                /\ result'[c] = Flatten(pagesLog[c])
                /\ waits'[c] = waits[c]
                /\ fetchLog'[c] = fetchLog[c]
          /\ pc[c] = "done"
             => /\ pc'[c] = "done"
                /\ result'[c] = result[c]
                /\ waits'[c] = waits[c]
                /\ fetchLog'[c] = fetchLog[c]]_vars

\* C11 witness: a page of records, two failures at offset 25, then an empty
\* page there; the call returned the records of the first page.
C11_Witness ==
    /\ pc[First] = "done" /\ outcome[First] = "ok"
    /\ outcomes[First] = <<"ok", "fail", "fail", "ok">>
    /\ fetchLog[First] = <<0, 25, 25, 25>>
    /\ pagesLog[First][2] = <<>>
    /\ result[First] = pagesLog[First][1] /\ Len(result[First]) > 0
    /\ Len(waits[First]) = 3

\* The step on which call c returns, and the step on which it starts
Returns(c) == pc[c] # "done" /\ pc'[c] = "done"
Starts(c) == pc[c] = "idle" /\ pc'[c] \in {"fetching", "done"}
\* The cache without the entry of key k
Without(c, k) == [x \in DOMAIN c \ {k} |-> c[x]]
\* What a returning call does to the cache: a call that ran the loop and
\* returns records sets its offset-zero key to them, stamped now, as its one
\* write; any other return leaves the cache alone and has written nothing.
WritesOnReturn(c) ==
    Returns(c) =>
        IF ~hit'[c] /\ result'[c] # <<>>
        THEN /\ cache' = [k \in DOMAIN cache \cup {url(query'[c], 0)} |->
                            IF k = url(query'[c], 0)
                            THEN [data |-> result'[c], timestamp |-> now]
                            ELSE cache[k]]
             /\ cacheWrites'[c] = 1
        ELSE /\ cache' = cache
             /\ cacheWrites'[c] = 0
NoEmptyEntry == \A k \in DOMAIN cache : cache[k].data # <<>>

\* C12 as stated: a call that ran the loop writes the cache once, its result
\* under its offset-zero key at the current time, exactly when it returns
\* records; a call that returns no records, and a call served from the
\* cache, make no change to the cache at all; no entry is ever empty.
C12_OnlyNonEmptyReturnsTouchCache ==
    [][\A c \in Calls :
          /\ WritesOnReturn(c)
          /\ (Returns(c) /\ (hit'[c] \/ result'[c] = <<>>))
             => cacheDeletes'[c] = 0
          /\ NoEmptyEntry']_vars

\* C12, amended: as above, but the read that opens a call deletes the entry
\* of its key when that entry is older than TTL, whatever the call returns
\* later; that is the only other change a call makes.
C12_WriteIffNonEmptyDeleteOnExpiredRead ==
    [][\A c \in Calls :
          /\ WritesOnReturn(c)
          /\ Starts(c) =>
                LET k == url(query'[c], 0)
                IN  IF k \in DOMAIN cache /\ now - cache[k].timestamp > TTL
                    THEN /\ cache' = Without(cache, k)
                         /\ cacheDeletes'[c] = 1
                         /\ ~hit'[c]
                    ELSE cacheDeletes'[c] = 0
          /\ (~Starts(c) /\ pc'[c] # pc[c]) => cacheDeletes'[c] = cacheDeletes[c]
          /\ hit'[c] => cacheDeletes'[c] = 0
          /\ NoEmptyEntry']_vars

\* C12 witness: a call found the entry of its key expired, deleted it, ran
\* the loop and returned no records, and the key is gone from the cache.
C12_Witness ==
    \E c \in Calls :
        /\ pc[c] = "done" /\ ~hit[c] /\ result[c] = <<>>
        /\ cacheDeletes[c] = 1 /\ cacheWrites[c] = 0
        /\ url(query[c], 0) \notin DOMAIN cache
        /\ url(query[c], 0) \in DOMAIN lastSet

\* C13: the sweep of clearCache deletes exactly the entries older than TTL
\* and leaves every other entry as it was, key, records and timestamp; so
\* the number of entries it leaves, which getCacheSize then reports, is the
\* number that were not expired.
C13_SweepRemovesExactlyExpired ==
    [][/\ (cop'.op = "clear" /\ (cop' # cop \/ cache' # cache))
          => LET live == {k \in DOMAIN cache : now - cache[k].timestamp <= TTL}
             IN  /\ DOMAIN cache' = live
                 /\ \A k \in live : cache'[k] = cache[k]
                 /\ cop'.removed = Cardinality(DOMAIN cache \ live)
                 /\ now' = now
       /\ (cop.op = "clear" /\ cop'.op = "size")
          => LET live == {k \in DOMAIN lastSet :
                             /\ cop.at - lastSet[k].timestamp <= TTL
                             /\ k \in DOMAIN cache}
             IN  /\ cop'.size = Cardinality(DOMAIN cache)
                 /\ cop'.size = Cardinality(live)]_vars

\* C13 witness: of two entries the sweep removed the one that was a tick
\* past TTL and kept the one exactly TTL old.
C13_Witness ==
    /\ cop.op = "clear" /\ cop.removed = 1 /\ cop.at = 2 * TTL + 1
    /\ CacheSize(cache) = 1
    /\ \E k \in DOMAIN cache : cache[k].timestamp = TTL + 1
    /\ \E k \in DOMAIN lastSet : lastSet[k].timestamp = 0 /\ k \notin DOMAIN cache

\* What of a call the orchestrator lets be seen: everything but the message
\* of the last error.
Observable(c) ==
    [pc |-> pc[c], query |-> query[c], fetchLog |-> fetchLog[c],
     outcomes |-> outcomes[c], consecutiveErrors |-> consecutiveErrors[c],
     waits |-> waits[c], wakeAt |-> wakeAt[c], start |-> start[c],
     allJobs |-> allJobs[c], result |-> result[c], outcome |-> outcome[c],
     lastFetchAt |-> lastFetchAt[c], cacheWrites |-> cacheWrites[c]]

\* C14: two runs of getJobs given the same query, pages and random numbers,
\* and failing at the same fetches, show the same offsets, counter values,
\* delays and result whichever of their failures are rate-limit failures and
\* whichever are not; and the second run's cache write leaves the cache as
\* the first run's write left it.
C14_RateLimitLikeAnyFailure ==
    [][/\ InStep' => Observable(Leader)' = Observable(Follower)'
       /\ (InStep' /\ pc'[Follower] = "done" /\ pc[Follower] # "done")
          => /\ cache' = cache
             /\ cacheWrites'[Follower] = (IF result'[Follower] = <<>> THEN 0 ELSE 1)]_vars

\* C14 witness: two finished runs with a page of records and then three
\* failures each, all of them 429 in one run and none in the other.
C14_Witness ==
    /\ InStep /\ pc[Leader] = "done" /\ pc[Follower] = "done"
    /\ outcomes[Follower] = <<"ok", "fail", "fail", "fail">>
    /\ lastError[Leader] = "Rate limit reached"
    /\ lastError[Follower] = "Request failed"
    /\ Len(result[Follower]) > 0
    /\ url(query[Follower], 0) \in DOMAIN cache

\* C15: a call has at most one fetch out at a time, each issued only after
\* the one before was answered; its offsets start at 0, and each next one is
\* 25 more than the last if that fetch brought records, and the same offset
\* again if it failed; so the offsets never decrease and skip no page.
C15_SequentialOffsets ==
    \A c \in Calls :
        LET n == Len(fetchLog[c])
        IN  /\ n - Len(outcomes[c]) = (IF pc[c] = "fetching" THEN 1 ELSE 0)
            /\ n > 0 => fetchLog[c][1] = 0
            /\ \A i \in 2..n :
                  /\ outcomes[c][i - 1] = "ok"
                     => fetchLog[c][i] = fetchLog[c][i - 1] + 25
                  /\ outcomes[c][i - 1] = "fail"
                     => fetchLog[c][i] = fetchLog[c][i - 1]
            /\ InLoop(c) => start[c] = 25 * Occurrences("ok", outcomes[c])

\* C15 witness: offsets 0, 25, 25, 50 for a page, a failure and a page.
C15_Witness ==
    /\ pc[First] = "fetching"
    /\ fetchLog[First] = <<0, 25, 25, 50>>
    /\ outcomes[First] = <<"ok", "fail", "ok">>

\* C16 as stated: of two calls for one key in flight together, both miss and
\* run the loop, and when the second of them returns both have written the
\* cache and the entry of the key is what that last call returned, stamped
\* with the time of its return.
C16_BothWriteLastWins ==
    [][\A c \in Calls : \A d \in Calls \ {c} :
          (Returns(c) /\ pc[d] = "done")
          => /\ ~hit'[c] /\ ~hit[d]
             /\ cacheWrites'[c] = 1 /\ cacheWrites[d] = 1
             /\ url(query[c], 0) \in DOMAIN cache'
             /\ cache'[url(query[c], 0)] =
                   [data |-> result'[c], timestamp |-> now]]_vars

\* C16, amended: of two calls for one key in flight together, both miss and
\* run the loop; each writes the cache when it returns if and only if it
\* returns records, and that write replaces the entry of the key by its own
\* result and time of return, whatever the other call stored there; a call
\* that returns no records leaves the other's entry in place.
C16_BothMissLastNonEmptyWriteWins ==
    [][\A c \in Calls : \A d \in Calls \ {c} :
          /\ (Starts(c) /\ pc[d] # "idle")
             => /\ url(query'[c], 0) = url(query[d], 0)
                /\ ~hit'[c] /\ ~hit[d]
                /\ pc'[c] = "fetching"
          /\ Returns(c)
             => /\ ~hit'[c] /\ Len(fetchLog[c]) > 0
                /\ IF result'[c] # <<>>
                   THEN /\ cacheWrites'[c] = 1
                        /\ cache' = [k \in {url(query[c], 0)} |->
                                        [data |-> result'[c], timestamp |-> now]]
                   ELSE /\ cacheWrites'[c] = 0
                        /\ cache' = cache]_vars

\* C16 witness: both calls ran the loop and returned records; the one that
\* returned fewer returned last, and the entry holds its records.
C16_Witness ==
    \E c \in Calls : \E d \in Calls \ {c} :
        /\ pc[c] = "done" /\ pc[d] = "done" /\ ~hit[c] /\ ~hit[d]
        /\ cacheWrites[c] = 1 /\ cacheWrites[d] = 1
        /\ Len(result[d]) > Len(result[c]) /\ Len(result[c]) > 0
        /\ cache[url(query[c], 0)].data = result[c]
        /\ cache[url(query[c], 0)].timestamp > lastFetchAt[d]

\* An item has a position, or a company, when the text its selector finds is
\* not empty once trimmed.
HasPosition(el) == Trim(el.title) # ""
HasCompany(el) == Trim(el.subtitle) # ""
CountOf(page, Test(_)) == Cardinality({i \in 1..Len(page) : Test(page[i])})
HasEither(el) == HasPosition(el) \/ HasCompany(el)
HasBoth(el) == HasPosition(el) /\ HasCompany(el)

\* C17 as stated: the extractor drops an item only when it has neither a
\* position nor a company; every item with at least one of them comes back
\* as a record.
C17_DropsOnlyItemsLackingBoth ==
    parsed # Null => Len(parsed[1]) = CountOf(rawPage, HasEither)

\* C17, amended: the extractor drops an item when it lacks a position or
\* lacks a company; the records are those of the items that have both, one
\* each, and nothing else about an item makes it be dropped.
C17_DropsItemsLackingEither ==
    parsed # Null =>
        /\ Len(parsed[1]) = CountOf(rawPage, HasBoth)
        /\ \A el \in {rawPage[i] : i \in 1..Len(rawPage)} :
              LET same == {r \in {parsed[1][j] : j \in 1..Len(parsed[1])} :
                              /\ r.position = Trim(el.title)
                              /\ r.company = Trim(el.subtitle)}
              IN  /\ HasBoth(el) => same # {}
                  /\ ~HasBoth(el) => same = {}
                  /\ \A r \in same :
                        /\ r.salary # ""
                        /\ el.href = <<>> => r.jobUrl = ""
                        /\ el.datetime = <<>> => r.date = <<>>

\* C17 witness: a page with an item that has a position only, one that has
\* a company only and a complete one gave a single record.
C17_Witness ==
    /\ parsed # Null /\ Len(rawPage) = 3 /\ Len(parsed[1]) = 1
    /\ \E i \in 1..3 : HasPosition(rawPage[i]) /\ ~HasCompany(rawPage[i])
    /\ \E i \in 1..3 : ~HasPosition(rawPage[i]) /\ HasCompany(rawPage[i])
    /\ CountOf(rawPage, HasEither) = 3

\* C18: a call with a positive limit L makes at most 3*L fetches and, every
\* fetch being answered and every timer firing, returns whatever the answers
\* are; a call with no limit leaves the loop only on a page of no records or
\* on the third failure in a row, and goes on fetching while pages bring
\* records.
C18_TerminatesWithin3L ==
    /\ [](\A c \in Calls :
            /\ query[c].limit > 0 => Len(fetchLog[c]) <= 3 * query[c].limit
            /\ (LoopDone(c) /\ query[c].limit = 0)
               => \/ TrailingFails(outcomes[c]) = 3
                  \/ /\ outcomes[c][Len(outcomes[c])] = "ok"
                     /\ pagesLog[c][Len(pagesLog[c])] = <<>>
            /\ ( /\ query[c].limit = 0 /\ Len(outcomes[c]) > 0
                 /\ outcomes[c][Len(outcomes[c])] = "ok"
                 /\ pagesLog[c][Len(pagesLog[c])] # <<>> )
               => pc[c] \in {"pacing", "fetching"})
    /\ \A c \in Calls :
          (pc[c] = "fetching" /\ query[c].limit > 0) ~> (pc[c] = "done")

\* C18 witness: a call with limit 2 returned after exactly 6 fetches, two
\* failures before each of its two pages.
C18_Witness ==
    /\ pc[First] = "done" /\ query[First].limit = 2
    /\ outcomes[First] = <<"fail", "fail", "ok", "fail", "fail", "ok">>
    /\ Len(fetchLog[First]) = 6 /\ Len(result[First]) = 2

\* C19: a call never issues a fetch straight after another: a fetch that
\* does not end the loop is followed by one wait, of 2000 to 3000 ms after a
\* page and of 2000 or 4000 ms after a failure, and the next fetch goes out
\* no sooner than that wait after the answer; the fetch that ends the loop
\* is followed by no wait.
C19_WaitBetweenFetches ==
    [][\A c \in Calls :
          LET w == waits'[c][Len(waits'[c])]
          IN  /\ (pc[c] = "fetching" /\ pc'[c] # "fetching")
                 => IF pc'[c] = "done"
                    THEN waits'[c] = waits[c]
                    ELSE /\ Len(waits'[c]) = Len(waits[c]) + 1
                         /\ w >= 2000
                         /\ wakeAt'[c] = now + w
                         /\ pc'[c] = "pacing" => w >= 2000 /\ w <= 3000
                         /\ pc'[c] = "backoff" => w \in {2000, 4000}
              /\ (pc[c] # "fetching" /\ pc'[c] = "fetching" /\ Len(fetchLog[c]) > 0)
                 => /\ pc[c] \in {"pacing", "backoff"}
                    /\ waits'[c] = waits[c]
                    /\ Len(waits[c]) = Len(fetchLog[c])
                    /\ now' >= wakeAt[c]
                    /\ lastFetchAt'[c] - lastFetchAt[c] >= w
                    /\ lastFetchAt'[c] - lastFetchAt[c] >= 2000
              /\ (pc[c] = "fetching" /\ pc'[c] = "fetching")
                 => fetchLog'[c] = fetchLog[c]]_vars

\* C19 witness: the third fetch of a call went out 4999 ms after the first,
\* after a pacing delay of 2999 ms and a backoff of 2000 ms.
C19_Witness ==
    /\ pc[First] = "fetching" /\ outcomes[First] = <<"ok", "fail">>
    /\ waits[First] = <<2999, 2000>>
    /\ Len(fetchLog[First]) = 3 /\ lastFetchAt[First] = 4999

\* C20: an entry of the cache stays as it is, records and timestamp, until
\* it is deleted, being older than TTL, or a call that ran the fetch loop
\* stores its result under that key; a hit changes nothing, and what it
\* returns is what such a call stored at most TTL before.
C20_NoSlidingExpiration ==
    [][/\ \A k \in DOMAIN cache :
             \/ k \in DOMAIN cache' /\ cache'[k] = cache[k]
             \/ k \notin DOMAIN cache' /\ now - cache[k].timestamp > TTL
             \/ \E c \in Calls :
                   /\ Returns(c) /\ ~hit'[c] /\ result'[c] # <<>>
                   /\ k = url(query[c], 0) /\ k \in DOMAIN cache'
                   /\ cache'[k] = [data |-> result'[c], timestamp |-> now]
       /\ \A c \in Calls :
             (Starts(c) /\ hit'[c])
             => LET key == url(query'[c], 0)
                IN  /\ cache' = cache
                    /\ key \in DOMAIN cache
                    /\ result'[c] = cache[key].data
                    /\ cache[key] = lastSet[key]
                    /\ now - cache[key].timestamp <= TTL
                    /\ \E d \in Calls \ {c} :
                          /\ LoopDone(d) /\ url(query[d], 0) = key
                          /\ result[d] = result'[c]
                          /\ cacheWrites[d] = 1]_vars

\* C20 witness: an entry stored at time 2000 served a call a full TTL later
\* and still bears the time 2000.
C20_Witness ==
    \E c \in Calls :
        /\ pc[c] = "done" /\ hit[c] /\ now = TTL + 2000
        /\ url(query[c], 0) \in DOMAIN cache
        /\ cache[url(query[c], 0)].timestamp = 2000
        /\ cache[url(query[c], 0)].data = result[c]

====
